---- MODULE Spec2Model ----
(***************************************************************************)
(* Model of the asynchronous logger of jbarasa/logger (logger/logger.go):  *)
(* the front-end (Debug/Info/.../Fatal, Logger.log), the buffered channel  *)
(* logChan, the single consumer goroutine (Logger.processLogs), the writer *)
(* (Logger.writeBatch, Logger.rotate) and the lifecycle (Initialize,       *)
(* Close).  Caller goroutines and the consumer interleave at the points    *)
(* where they touch shared state (channels, the WaitGroup, the pool).      *)
(***************************************************************************)
EXTENDS Integers, Sequences, FiniteSets, TLC

\* ------------------------------------------------------------------ bounds
\* Total number of front-end calls (Debug/Error/Fatal) over a run.
MaxCalls == 2
\* Total number of Close calls over a run.
MaxCloses == 2
\* Injected I/O failures (a failing Write, a failing OpenFile) over a run.
MaxFaults == 1
\* The batch high-water mark, 50000 in the source, scaled down so that the
\* size-triggered flush happens within MaxCalls records.
BatchLimit == 2
\* The default Initialize applies to MaxLines, 100000 in the source, scaled
\* down so that a run of MaxRecords records reaches it.
DefaultMaxLines == 3
\* Total number of records handed to writeBatch in a run of SpecWriter.
MaxRecords == 5
\* Number of rotations in a run of SpecArchive.
MaxRotations == 3

\* ------------------------------------------------------- program constants
DEBUG == 0
INFO == 1
WARN == 2
ERROR == 3
FATAL == 4

levelNames == <<"DEBUG", "INFO", "WARN", "ERROR", "FATAL">>

\* Length of time.Format("2006/01/02 15:04:05").
TimestampLen == 19

\* Default applied by Initialize to BufferSize.
DefaultBufferSize == 100000

\* ------------------------------------------------------------------ inputs
Threads == {"t1", "t2"}

\* Levels the non-FATAL front-end calls are made with (Debug, Error).
CallLevels == {DEBUG, ERROR}

\* Length of the formatted message of a call.
MsgLens == {2}

\* Length of the rendered "relPath:line" of the caller.
LocLens == {10}

\* A file name or path is the sequence of its dot-separated components:
\* <<"my", "app", "log">> is my.app.log (all in the one log directory).
\* Config values Initialize is called with: line rotation every 2 lines;
\* size rotation at 50 bytes (a rendered line is 44 bytes or more) with
\* MaxLines left at 0; and both MaxLines and MaxFileSize left at 0.
Configs ==
    {[LogPath |-> <<"app">>, Level |-> WARN, BufferSize |-> 2, MaxLines |-> 2,
      MaxFileSize |-> 1000],
     [LogPath |-> <<"app">>, Level |-> WARN, BufferSize |-> 1, MaxLines |-> 0,
      MaxFileSize |-> 50],
     [LogPath |-> <<"app">>, Level |-> WARN, BufferSize |-> 1, MaxLines |-> 0,
      MaxFileSize |-> 0]}

\* The entry objects the pool can hand out (one per call suffices).
Slots == 1..MaxCalls

VARIABLES
    defaultLogger,  \* "nil" or "set": the package variable defaultLogger
    l,              \* the Logger struct's writer-side fields
    logChan,        \* [buf, closed]: the buffered channel l.logChan
    done,           \* TRUE once l.done is closed
    wg,             \* l.wg counter: 1 while processLogs runs
    batch,          \* processLogs' local slice batch (entry pointers)
    heap,           \* the logEntry objects: slot -> [level, msg, loc]
    pool,           \* entryPool: the slots currently in the pool
    fs,             \* the log directory: file index -> sequence of lines
    pc,             \* per caller goroutine: position in log()/Close()
    ent,            \* per caller goroutine: the entry it holds (0 = none)
    proc,           \* "running", "exit" (os.Exit) or "panic"
    exitCode,       \* process exit status once proc # "running"
    wstat,          \* I/O failures: injected so far, how many may be, and
                    \* the ids of the records whose write failed
    h,              \* history: calls made, entries created, ids accepted, ...
    dir,            \* names of the files in the log directory before Initialize
    arch            \* the archive-move rotation strategy's files

vars == <<defaultLogger, l, logChan, done, wg, batch, heap, pool, fs, pc, ent,
          proc, exitCode, wstat, h, dir, arch>>

\* ----------------------------------------------------------------- helpers
RECURSIVE SumSizes(_)
Range(s) == {s[i] : i \in 1..Len(s)}

\* The element of a one-element set.  {F(r) : r \in {e}} computes e once,
\* however often F uses it.
The(S) == CHOOSE x \in S : TRUE

\* msg bytes of the id-th message with length n: n copies of the byte id.
MsgBytes(id, n) == [i \in 1..n |-> id]

\* The line fmt.Fprintf(buf, "%s [%s] [%s:%d] %s\n", ...) renders for an entry.
Render(e) == [level |-> levelNames[e.level + 1], msg |-> e.msg, loc |-> e.loc]

\* Byte length of a rendered line: ts + " [" + level + "] [" + loc + "] " + msg + "\n".
LineSize(ln) ==
    TimestampLen + 2 + Len(ln.level) + 3 + ln.loc + 2 + Len(ln.msg) + 1

SumSizes(lines) ==
    IF lines = <<>> THEN 0 ELSE LineSize(Head(lines)) + SumSizes(Tail(lines))

\* ------------------------------------------------------------------ writer
\* The writer works on st = [l, fs, wstat]; flt = [write, open] says which
\* system calls of this flush fail (Write returns an error, OpenFile returns
\* an error).

NoFault == [write |-> FALSE, open |-> FALSE]
FaultChoices ==
    {NoFault, [write |-> TRUE, open |-> FALSE], [write |-> FALSE, open |-> TRUE]}

\* The choices left to a step once ws.faults failures are spent: none but
\* NoFault when the budget is used up.
FaultsLeft(ws) == IF ws.faults < ws.budget THEN FaultChoices ELSE {NoFault}

\* os.OpenFile(path, O_CREATE|O_APPEND|O_WRONLY): creates the file when absent.
OpenFile(files, idx) ==
    IF idx \in DOMAIN files THEN files ELSE files @@ (idx :> <<>>)

\* Logger.rotate
rotate(st, flt) ==
    IF ~st.l.file.open
    THEN st     \* l.file.Close() fails: return before touching anything
    ELSE
        LET idx == st.l.currentIndex + 1 IN
        IF flt.open
        THEN [st EXCEPT !.l.file.open = FALSE,
                        !.l.currentIndex = idx,
                        !.wstat.faults = @ + 1]
        ELSE [st EXCEPT !.l.file = [idx |-> idx, open |-> TRUE],
                        !.l.currentIndex = idx,
                        !.l.currSize = 0,
                        !.l.lineCount = 0,
                        !.fs = OpenFile(@, idx)]

\* One iteration of writeBatch's loop after the line is rendered:
\* l.lineCount++; if l.lineCount >= l.maxLines { l.rotate(); l.lineCount = 0 }
CountLine(st, flt) ==
    LET st1 == [st EXCEPT !.l.lineCount = @ + 1] IN
    IF st1.l.lineCount >= st1.l.maxLines
    THEN LET st2 == rotate(st1, flt) IN
         [st2 EXCEPT !.l.lineCount = 0]
    ELSE st1

RECURSIVE RenderLoop(_, _, _)
\* Mutation of RenderLoop: the line count is checked once per batch, not
\* once per record.
RenderLoopCheckOnce(st, entries, flt) ==
    LET st1 == [st EXCEPT !.l.lineCount = @ + Len(entries)] IN
    IF st1.l.lineCount >= st1.l.maxLines
    THEN [rotate(st1, flt) EXCEPT !.l.lineCount = 0]
    ELSE st1

\* The for loop of writeBatch: the state after all entries are counted.
RenderLoop(st, entries, flt) ==
    IF entries = <<>> THEN st
    ELSE The({RenderLoop(r, Tail(entries), flt) : r \in {CountLine(st, flt)}})

\* Mutation of RenderBuf: the lines are rendered last entry first.
RenderBufReversed(entries) ==
    [i \in 1..Len(entries) |-> Render(entries[Len(entries) + 1 - i])]

\* The buffer the loop builds: one rendered line per entry, in slice order.
RenderBuf(entries) == [i \in 1..Len(entries) |-> Render(entries[i])]

\* The message numbers of the lines of a buffer (a line's bytes carry it).
LineIds(buf) == {buf[i].msg[1] : i \in 1..Len(buf)}

\* Mutation of WriteBuf: currSize is set to the batch's size, not added to.
WriteBufSetsSize(st, buf, flt) ==
    IF ~st.l.file.open THEN [st EXCEPT !.wstat.lost = @ \cup LineIds(buf)]
    ELSE IF flt.write
    THEN [st EXCEPT !.wstat.faults = @ + 1, !.wstat.lost = @ \cup LineIds(buf)]
    ELSE
        LET st1 == [st EXCEPT !.fs[st.l.file.idx] = @ \o buf,
                              !.l.currSize = SumSizes(buf)]
        IN IF st1.l.currSize >= st1.l.maxSize THEN rotate(st1, flt) ELSE st1

\* Mutation of WriteBuf: the bytes of a failed write are counted all the same.
WriteBufCountsFailed(st, buf, flt) ==
    IF ~st.l.file.open
    THEN [st EXCEPT !.wstat.lost = @ \cup LineIds(buf)]
    ELSE
        LET st1 == [st EXCEPT !.l.currSize = @ + SumSizes(buf)] IN
        IF flt.write
        THEN [st1 EXCEPT !.wstat.faults = @ + 1,
                         !.wstat.lost = @ \cup LineIds(buf)]
        ELSE LET st2 == [st1 EXCEPT !.fs[st.l.file.idx] = @ \o buf]
             IN IF st2.l.currSize >= st2.l.maxSize THEN rotate(st2, flt)
                ELSE st2

\* The single l.file.Write(buf.Bytes()) and what follows it.
WriteBuf(st, buf, flt) ==
    IF ~st.l.file.open
    THEN \* write on a closed handle: error
         [st EXCEPT !.wstat.lost = @ \cup LineIds(buf)]
    ELSE IF flt.write
    THEN \* the write fails: nothing lands
         [st EXCEPT !.wstat.faults = @ + 1,
                    !.wstat.lost = @ \cup LineIds(buf)]
    ELSE
        LET st1 == [st EXCEPT !.fs[st.l.file.idx] = @ \o buf,
                              !.l.currSize = @ + SumSizes(buf)]
        IN IF st1.l.currSize >= st1.l.maxSize
           THEN rotate(st1, flt)
           ELSE st1

\* Logger.writeBatch
writeBatch(st, entries, flt) ==
    IF Len(entries) = 0 THEN st
    ELSE The({WriteBuf(r, RenderBuf(entries), flt) :
                 r \in {RenderLoop(st, entries, flt)}})

\* ---------------------------------------------------------------- consumer
\* The consumer works on cs = [st, heap, pool, batch].

\* Mutation of Release: the entry is put into the pool twice.
ReleaseTwice(cs, s) ==
    [cs EXCEPT !.heap[s].msg = <<>>,
               !.pool[s] = @ + 2]

\* e.msg = e.msg[:0]; entryPool.Put(e)
Release(cs, s) ==
    [cs EXCEPT !.heap[s].msg = <<>>,
               !.pool[s] = @ + 1]

RECURSIVE ReleaseAll(_, _)
\* for _, e := range batch { e.msg = e.msg[:0]; entryPool.Put(e) }
ReleaseAll(cs, slots) ==
    IF slots = <<>> THEN cs
    ELSE ReleaseAll(Release(cs, Head(slots)), Tail(slots))

\* The entries a slice of pointers refers to.
Deref(hp, slots) == [i \in 1..Len(slots) |-> hp[slots[i]]]

\* l.writeBatch(batch) followed by the release loop.
FlushBatch(cs, flt) ==
    LET cs1 == [cs EXCEPT !.st = writeBatch(@, Deref(cs.heap, cs.batch), flt)]
    IN ReleaseAll(cs1, cs.batch)

\* Mutation of AppendEntry: the batch is not emptied after its flush.
AppendEntryNoReset(cs, s, flt) ==
    LET cs1 == [cs EXCEPT !.batch = Append(@, s)] IN
    IF Len(cs1.batch) >= BatchLimit THEN FlushBatch(cs1, flt) ELSE cs1

\* Mutation of AppendEntry: the batch is flushed once it is above the mark.
AppendEntryFlushAbove(cs, s, flt) ==
    LET cs1 == [cs EXCEPT !.batch = Append(@, s)] IN
    IF Len(cs1.batch) > BatchLimit
    THEN [FlushBatch(cs1, flt) EXCEPT !.batch = <<>>]
    ELSE cs1

\* batch = append(batch, entry); if len(batch) >= 50000 { flush; batch = batch[:0] }
AppendEntry(cs, s, flt) ==
    LET cs1 == [cs EXCEPT !.batch = Append(@, s)] IN
    IF Len(cs1.batch) >= BatchLimit
    THEN [FlushBatch(cs1, flt) EXCEPT !.batch = <<>>]
    ELSE cs1

RECURSIVE DrainLoop(_, _, _)
\* Mutation of DrainAndFlush: the final partial batch is not flushed.
DrainWithoutFinalFlush(cs, queue, flt) == DrainLoop(cs, queue, flt)

\* for entry := range l.logChan { ... } on the closed channel
DrainLoop(cs, queue, flt) ==
    IF queue = <<>> THEN cs
    ELSE DrainLoop(AppendEntry(cs, Head(queue), flt), Tail(queue), flt)

\* The whole `case <-l.done` branch after close(l.logChan).
DrainAndFlush(cs, queue, flt) ==
    LET cs1 == DrainLoop(cs, queue, flt) IN
    IF Len(cs1.batch) > 0
    THEN [FlushBatch(cs1, flt) EXCEPT !.batch = <<>>]  \* the slice dies with the return
    ELSE cs1

\* -------------------------------------------------------------------- init
NoEntry == [level |-> 0, msg |-> <<>>, loc |-> 0]
NoFile == [idx |-> 0, open |-> FALSE]
EmptyDir == [i \in {} |-> <<>>]
\* The zero value of Config.
ZeroConfig == [LogPath |-> <<>>, Level |-> 0, BufferSize |-> 0, MaxLines |-> 0,
               MaxFileSize |-> 0]
\* The archive strategy's files before anything is written: the current file
\* at its fixed path, an empty readable archive directory.
NoArchive == [path |-> <<"app", "log">>, cur |-> <<>>,
              files |-> [n \in {} |-> <<>>], readable |-> TRUE,
              written |-> 0, rotations |-> 0]

Init ==
    /\ defaultLogger = "nil"
    /\ l = [file |-> NoFile, level |-> 0, maxSize |-> 0, currSize |-> 0,
            bufferSize |-> 0, lineCount |-> 0, maxLines |-> 0,
            currentIndex |-> 0]
    /\ logChan = [buf |-> <<>>, closed |-> FALSE]
    /\ done = FALSE
    /\ wg = 0
    /\ batch = <<>>
    /\ heap = [s \in Slots |-> NoEntry]
    /\ pool = [s \in Slots |-> 0]
    /\ fs = EmptyDir
    /\ pc = [t \in Threads |-> "idle"]
    /\ ent = [t \in Threads |-> 0]
    /\ proc = "running"
    /\ exitCode = 0
    /\ wstat = [faults |-> 0, budget |-> 0, lost |-> {}]
    /\ h = [calls |-> 0, filtered |-> 0, created |-> 0, allocated |-> 0, accepted |-> <<>>,
            closes |-> 0, closeReturned |-> 0, atSignal |-> 0,
            panic |-> "", config |-> ZeroConfig]
    /\ dir = {}
    /\ arch = NoArchive

\* The decimal numerals "%d" and strconv.Atoi convert between.
Numerals == <<"1", "2", "3", "4", "5", "6", "7", "8", "9">>

\* fmt.Sprintf("%d", i)
Itoa(i) == Numerals[i]

\* strconv.Atoi(s): the number and whether s is a numeral.
Atoi(s) ==
    IF \E i \in DOMAIN Numerals : Numerals[i] = s
    THEN [ok |-> TRUE, val |-> CHOOSE i \in DOMAIN Numerals : Numerals[i] = s]
    ELSE [ok |-> FALSE, val |-> 0]

\* ext := filepath.Ext(path); if ext != "" { path = strings.TrimSuffix(path, ext) }
TrimExt(path) ==
    IF Len(path) > 1 THEN SubSeq(path, 1, Len(path) - 1) ELSE path

\* fmt.Sprintf("%s.%d.log", base, idx)
LogName(base, idx) == base \o <<Itoa(idx), "log">>

\* filepath.Match(base + ".*.log", name): name is base, a dot, anything, ".log".
MatchesPattern(base, name) ==
    /\ Len(name) >= Len(base) + 2
    /\ SubSeq(name, 1, Len(base)) = base
    /\ name[Len(name)] = "log"

\* strings.Split(strings.TrimSuffix(name, ".log"), ".")
SplitName(name) ==
    IF Len(name) > 1 /\ name[Len(name)] = "log"
    THEN SubSeq(name, 1, Len(name) - 1)
    ELSE name

\* The names of the files the logger itself created with base name base.
FsNames(files, base) == {LogName(base, i) : i \in DOMAIN files}

RECURSIVE ScanDir(_, _, _)
\* The scan of Initialize over the directory entries: a file that matches the
\* pattern, splits into exactly two parts and has a number as the second
\* raises nextIndex past that number.
ScanDir(names, base, nextIndex) ==
    IF names = {} THEN nextIndex
    ELSE LET f == CHOOSE n \in names : TRUE
             parts == SplitName(f)
             idx == IF MatchesPattern(base, f) /\ Len(parts) = 2
                    THEN Atoi(parts[2])
                    ELSE [ok |-> FALSE, val |-> 0]
         IN ScanDir(names \ {f}, base,
                    IF idx.ok /\ idx.val >= nextIndex THEN idx.val + 1
                    ELSE nextIndex)

\* Initialize(config)
Initialize(config) ==
    /\ proc = "running"
    /\ defaultLogger = "nil"
    /\ LET bufferSize == IF config.BufferSize = 0 THEN DefaultBufferSize
                         ELSE config.BufferSize
           maxLines == IF config.MaxLines = 0 THEN DefaultMaxLines
                       ELSE config.MaxLines
           base == TrimExt(config.LogPath)
           nextIndex == ScanDir(dir \cup FsNames(fs, base), base, 1)
       IN /\ fs' = OpenFile(fs, nextIndex)
          /\ l' = [file |-> [idx |-> nextIndex, open |-> TRUE],
                   level |-> config.Level,
                   maxSize |-> config.MaxFileSize,
                   currSize |-> 0,
                   bufferSize |-> bufferSize,
                   lineCount |-> 0,
                   maxLines |-> maxLines,
                   currentIndex |-> nextIndex]
    /\ logChan' = [buf |-> <<>>, closed |-> FALSE]
    /\ done' = FALSE
    /\ defaultLogger' = "set"
    /\ wg' = 1
    /\ h' = [h EXCEPT !.config = config]
    /\ UNCHANGED <<batch, heap, pool, pc, ent, proc, exitCode, wstat, dir,
                   arch>>

\* --------------------------------------------------------------- front end
\* The number of the message an entry or a line holds (its bytes carry it).
IdOf(e) == IF e.msg = <<>> THEN 0 ELSE e.msg[1]

\* entryPool.Get(): a pooled entry when there is one, else New().  Which
\* pooled entry Get returns is arbitrary; log overwrites every field of it,
\* so the pooled entries are interchangeable and the lowest slot stands for
\* any of them.
PoolGet ==
    IF \E s \in Slots : pool[s] > 0
    THEN CHOOSE s \in Slots : pool[s] > 0 /\ \A u \in Slots : pool[u] > 0 => s <= u
    ELSE h.allocated + 1

\* Mutation of Filtered: the level check is missing.
FilteredNever(level, minLevel) == FALSE

\* if level < l.level { return }
Filtered(level, minLevel) == level < minLevel

\* Mutation of CanSend: the capacity check is off by one.
CanSendOffByOne(ch, cap) == Len(ch.buf) <= cap

\* The send case of the select is ready: the channel has room.
CanSend(ch, cap) == Len(ch.buf) < cap

\* Mutation of WaitDone: the caller does not wait for the consumer.
WaitNothing(counter) == TRUE

\* l.wg.Wait() returns: processLogs has called wg.Done().
WaitDone(counter) == counter = 0

\* Debug/Error/Fatal up to the channel send: the nil check of the wrapper,
\* then Logger.log's level check and the filling of a pooled entry.
Log(t, level, msgLen, loc) ==
    /\ proc = "running"
    /\ pc[t] = "idle"
    /\ h.calls < MaxCalls
    /\ LET id == h.created + 1
           s == PoolGet
       IN
       IF defaultLogger = "nil"
       THEN /\ h' = [h EXCEPT !.calls = @ + 1]
            /\ UNCHANGED <<heap, pool, pc, ent>>
       ELSE IF Filtered(level, l.level)
       THEN /\ h' = [h EXCEPT !.calls = @ + 1, !.filtered = @ + 1]
            /\ UNCHANGED <<heap, pool, pc, ent>>
       ELSE /\ heap' = [heap EXCEPT ![s] = [level |-> level,
                                            msg |-> MsgBytes(id, msgLen),
                                            loc |-> loc]]
            /\ pool' = [pool EXCEPT ![s] = IF @ > 0 THEN @ - 1 ELSE 0]
            /\ ent' = [ent EXCEPT ![t] = s]
            /\ pc' = [pc EXCEPT ![t] = "send"]
            /\ h' = [h EXCEPT !.calls = @ + 1,
                              !.created = id,
                              !.allocated = IF pool[s] > 0 THEN @ ELSE @ + 1]
    /\ UNCHANGED <<defaultLogger, l, logChan, done, wg, batch, fs, proc,
                   exitCode, wstat, dir, arch>>

\* The non-blocking send of Logger.log: select { case l.logChan <- entry: default: }
Send(t) ==
    /\ proc = "running"
    /\ pc[t] = "send"
    /\ LET s == ent[t]
           id == IdOf(heap[s])
           next == IF heap[s].level = FATAL THEN "signal" ELSE "idle"
       IN
       IF logChan.closed
       THEN \* a send on a closed channel panics, select or not
            /\ proc' = "panic"
            /\ exitCode' = 2
            /\ h' = [h EXCEPT !.panic = "send on closed channel"]
            /\ UNCHANGED <<logChan, heap, pool, pc, ent>>
       ELSE IF CanSend(logChan, l.bufferSize)
       THEN /\ logChan' = [logChan EXCEPT !.buf = Append(@, s)]
            /\ h' = [h EXCEPT !.accepted = Append(@, id)]
            /\ pc' = [pc EXCEPT ![t] = next]
            /\ ent' = [ent EXCEPT ![t] = 0]
            /\ UNCHANGED <<heap, pool, proc, exitCode>>
       ELSE \* default: entry.msg = entry.msg[:0]; entryPool.Put(entry)
            /\ heap' = [heap EXCEPT ![s].msg = <<>>]
            /\ pool' = [pool EXCEPT ![s] = @ + 1]
            /\ pc' = [pc EXCEPT ![t] = next]
            /\ ent' = [ent EXCEPT ![t] = 0]
            /\ UNCHANGED <<logChan, proc, exitCode, h>>
    /\ UNCHANGED <<defaultLogger, l, done, wg, batch, fs, wstat, dir, arch>>

\* Logger.log, level == FATAL: close(l.done)
FatalSignal(t) ==
    /\ proc = "running"
    /\ pc[t] = "signal"
    /\ IF done
       THEN /\ proc' = "panic"
            /\ exitCode' = 2
            /\ h' = [h EXCEPT !.panic = "close of closed channel"]
            /\ UNCHANGED <<done, pc>>
       ELSE /\ done' = TRUE
            /\ pc' = [pc EXCEPT ![t] = "fatalwait"]
            /\ h' = [h EXCEPT !.atSignal = Len(h.accepted)]
            /\ UNCHANGED <<proc, exitCode>>
    /\ UNCHANGED <<defaultLogger, l, logChan, wg, batch, heap, pool, fs, ent,
                   wstat, dir, arch>>

\* Logger.log, level == FATAL: l.wg.Wait(); os.Exit(1)
FatalExit(t) ==
    /\ proc = "running"
    /\ pc[t] = "fatalwait"
    /\ WaitDone(wg)
    /\ proc' = "exit"
    /\ exitCode' = 1
    /\ UNCHANGED <<defaultLogger, l, logChan, done, wg, batch, heap, pool, fs,
                   pc, ent, wstat, h, dir, arch>>

\* Mutation of CloseSignal: a Close that finds the signal closed returns
\* without closing it again.
CloseSignalOnce(t) ==
    /\ proc = "running"
    /\ pc[t] = "idle"
    /\ h.closes < MaxCloses
    /\ IF defaultLogger = "nil" \/ done
       THEN /\ h' = [h EXCEPT !.closes = @ + 1]
            /\ UNCHANGED <<done, pc, proc, exitCode>>
       ELSE /\ done' = TRUE
            /\ pc' = [pc EXCEPT ![t] = "closewait"]
            /\ h' = [h EXCEPT !.closes = @ + 1, !.atSignal = Len(h.accepted)]
            /\ UNCHANGED <<proc, exitCode>>
    /\ UNCHANGED <<defaultLogger, l, logChan, wg, batch, heap, pool, fs, ent,
                   wstat, dir, arch>>

\* Close(): the nil check and close(defaultLogger.done)
CloseSignal(t) ==
    /\ proc = "running"
    /\ pc[t] = "idle"
    /\ h.closes < MaxCloses
    /\ IF defaultLogger = "nil"
       THEN /\ h' = [h EXCEPT !.closes = @ + 1]
            /\ UNCHANGED <<done, pc, proc, exitCode>>
       ELSE IF done
       THEN /\ proc' = "panic"
            /\ exitCode' = 2
            /\ h' = [h EXCEPT !.closes = @ + 1,
                              !.panic = "close of closed channel"]
            /\ UNCHANGED <<done, pc>>
       ELSE /\ done' = TRUE
            /\ pc' = [pc EXCEPT ![t] = "closewait"]
            /\ h' = [h EXCEPT !.closes = @ + 1, !.atSignal = Len(h.accepted)]
            /\ UNCHANGED <<proc, exitCode>>
    /\ UNCHANGED <<defaultLogger, l, logChan, wg, batch, heap, pool, fs, ent,
                   wstat, dir, arch>>

\* Mutation of CloseReturn: the file is closed without waiting for the
\* consumer.
CloseReturnNoWait(t) ==
    /\ proc = "running"
    /\ pc[t] = "closewait"
    /\ l' = [l EXCEPT !.file.open = FALSE]
    /\ pc' = [pc EXCEPT ![t] = "idle"]
    /\ h' = [h EXCEPT !.closeReturned = @ + 1]
    /\ UNCHANGED <<defaultLogger, logChan, done, wg, batch, heap, pool, fs,
                   ent, proc, exitCode, wstat, dir, arch>>

\* Close(): defaultLogger.wg.Wait(); return defaultLogger.file.Close()
CloseReturn(t) ==
    /\ proc = "running"
    /\ pc[t] = "closewait"
    /\ WaitDone(wg)
    /\ l' = [l EXCEPT !.file.open = FALSE]
    /\ pc' = [pc EXCEPT ![t] = "idle"]
    /\ h' = [h EXCEPT !.closeReturned = @ + 1]
    /\ UNCHANGED <<defaultLogger, logChan, done, wg, batch, heap, pool, fs,
                   ent, proc, exitCode, wstat, dir, arch>>

\* ------------------------------------------------------- consumer actions
ConsumerState == [st |-> [l |-> l, fs |-> fs, wstat |-> wstat],
                  heap |-> heap, pool |-> pool, batch |-> batch]

\* What a consumer step leaves behind (r is the value of cs, computed once).
Commit(cs) ==
    \E r \in {cs} :
        /\ r.st.wstat.faults <= wstat.budget
        /\ l' = r.st.l
        /\ fs' = r.st.fs
        /\ wstat' = r.st.wstat
        /\ heap' = r.heap
        /\ pool' = r.pool
        /\ batch' = r.batch

\* processLogs, case entry := <-l.logChan
Recv ==
    /\ proc = "running"
    /\ wg = 1
    /\ Len(logChan.buf) > 0
    /\ \E flt \in FaultsLeft(wstat) :
          Commit(AppendEntry(ConsumerState, Head(logChan.buf), flt))
    /\ logChan' = [logChan EXCEPT !.buf = Tail(@)]
    /\ UNCHANGED <<defaultLogger, done, wg, pc, ent, proc, exitCode, h, dir,
                   arch>>

\* Mutation of TickFlush: the tick does not flush.
TickNoFlush(cs, flt) == cs

\* if len(batch) > 0 { flush; batch = batch[:0] }
TickFlush(cs, flt) ==
    IF Len(cs.batch) > 0
    THEN [FlushBatch(cs, flt) EXCEPT !.batch = <<>>]
    ELSE cs

\* processLogs, case <-ticker.C
Tick ==
    /\ proc = "running"
    /\ wg = 1
    /\ \E flt \in FaultsLeft(wstat) : Commit(TickFlush(ConsumerState, flt))
    /\ UNCHANGED <<defaultLogger, logChan, done, wg, pc, ent, proc, exitCode,
                   h, dir, arch>>

\* processLogs, case <-l.done: close the queue, drain it, flush, return.
Shutdown ==
    /\ proc = "running"
    /\ wg = 1
    /\ done
    /\ \E flt \in FaultsLeft(wstat) :
          Commit(DrainAndFlush(ConsumerState, logChan.buf, flt))
    /\ logChan' = [buf |-> <<>>, closed |-> TRUE]
    /\ wg' = 0
    /\ UNCHANGED <<defaultLogger, done, pc, ent, proc, exitCode, h, dir, arch>>

\* -------------------------------------------------------------------- spec
Next ==
    \/ \E config \in Configs : Initialize(config)
    \/ \E t \in Threads, level \in CallLevels \cup {FATAL},
          msgLen \in MsgLens, loc \in LocLens : Log(t, level, msgLen, loc)
    \/ \E t \in Threads : Send(t)
    \/ \E t \in Threads : FatalSignal(t)
    \/ \E t \in Threads : FatalExit(t)
    \/ \E t \in Threads : CloseSignal(t)
    \/ \E t \in Threads : CloseReturn(t)
    \/ Recv
    \/ Tick
    \/ Shutdown

\* Every Write and OpenFile succeeds.
Spec == Init /\ [][Next]_vars

\* Up to MaxFaults calls of Write or OpenFile fail.
InitIO == Init!1 /\ Init!2 /\ Init!3 /\ Init!4 /\ Init!5 /\ Init!6 /\ Init!7
          /\ Init!8 /\ Init!9 /\ Init!10 /\ Init!11 /\ Init!12 /\ Init!13
          /\ wstat = [faults |-> 0, budget |-> MaxFaults, lost |-> {}]
          /\ Init!15 /\ Init!16 /\ Init!17

SpecIO == InitIO /\ [][Next]_vars

\* The Config the runs under fairness are initialized with: a queue of two
\* and line rotation every two lines.
LiveConfigs ==
    {[LogPath |-> <<"app">>, Level |-> WARN, BufferSize |-> 2, MaxLines |-> 2,
      MaxFileSize |-> 1000]}

NextLive ==
    \/ \E config \in LiveConfigs : Initialize(config)
    \/ \E t \in Threads, level \in CallLevels \cup {FATAL},
          msgLen \in MsgLens, loc \in LocLens : Log(t, level, msgLen, loc)
    \/ \E t \in Threads : Send(t)
    \/ \E t \in Threads : FatalSignal(t)
    \/ \E t \in Threads : FatalExit(t)
    \/ \E t \in Threads : CloseSignal(t)
    \/ \E t \in Threads : CloseReturn(t)
    \/ Recv
    \/ Tick
    \/ Shutdown

\* The consumer goroutine is scheduled and its ticker fires: a record in the
\* queue is eventually received, a tick on a non-empty batch eventually
\* taken.  Every Write and OpenFile succeeds.
SpecLive == Init /\ [][NextLive]_vars /\ WF_vars(Recv) /\ WF_vars(Tick)

\* --------------------------------------------------- the writer on its own
\* Config values for the runs of the writer alone: MaxLines left at 0 and
\* set to 1 and 2; MaxFileSize left at 0, one that three lines reach (a line
\* is 44 bytes) and one that no run reaches.
WriterConfigs ==
    {[LogPath |-> <<"app">>, Level |-> WARN, BufferSize |-> 1, MaxLines |-> m,
      MaxFileSize |-> s] : m \in {0, 1, 2}, s \in {0, 100, 1000}}

\* processLogs hands writeBatch a batch of n entries it has received, all
\* system calls succeeding.
WriteBatchCall(n, msgLen, loc) ==
    /\ proc = "running"
    /\ defaultLogger = "set"
    /\ wg = 1
    /\ h.created + n <= MaxRecords
    /\ LET entries == [i \in 1..n |-> [level |-> ERROR,
                                       msg |-> MsgBytes(h.created + i, msgLen),
                                       loc |-> loc]]
           st == writeBatch([l |-> l, fs |-> fs, wstat |-> wstat], entries,
                            NoFault)
       IN /\ l' = st.l
          /\ fs' = st.fs
          /\ wstat' = st.wstat
    /\ h' = [h EXCEPT !.created = @ + n,
                      !.accepted = @ \o [i \in 1..n |-> h.created + i]]
    /\ UNCHANGED <<defaultLogger, logChan, done, wg, batch, heap, pool, pc,
                   ent, proc, exitCode, dir, arch>>

NextWriter ==
    \/ \E config \in WriterConfigs : Initialize(config)
    \/ \E n \in 1..BatchLimit, msgLen \in MsgLens, loc \in LocLens :
          WriteBatchCall(n, msgLen, loc)

\* Initialize, then batches of up to BatchLimit records written one after
\* the other, MaxRecords records in all.
SpecWriter == Init /\ [][NextWriter]_vars

\* ------------------------------------------- Initialize on a used directory
\* LogPath values: app, app.log (base name app) and my.app.log (base name
\* my.app).
ScanConfigs ==
    {[LogPath |-> p, Level |-> WARN, BufferSize |-> 1, MaxLines |-> 2,
      MaxFileSize |-> 1000] : p \in {<<"app">>, <<"app", "log">>,
                                     <<"my", "app", "log">>}}

\* Names of files that earlier runs and other programs may have left in the
\* log directory.
LeftNames ==
    {<<"app", "1", "log">>, <<"app", "3", "log">>, <<"app", "log">>,
     <<"app", "x", "log">>, <<"my", "app", "1", "log">>,
     <<"my", "app", "2", "log">>}

\* A file is in the log directory before the logger is initialized.
LeaveFile(name) ==
    /\ proc = "running"
    /\ defaultLogger = "nil"
    /\ name \notin dir
    /\ dir' = dir \cup {name}
    /\ UNCHANGED <<defaultLogger, l, logChan, done, wg, batch, heap, pool, fs,
                   pc, ent, proc, exitCode, wstat, h, arch>>

NextScan ==
    \/ \E name \in LeftNames : LeaveFile(name)
    \/ \E config \in ScanConfigs : Initialize(config)

\* Initialize on a log directory that holds any of LeftNames.
SpecScan == Init /\ [][NextScan]_vars

\* ------------------------------------------- the archive-move strategy
\* The rotation strategy of the earlier releases, after its description:
\* the current file keeps its path, a rotation moves it to archive/<n>.log.
\* arch.cur is the contents of the current file, arch.files the archive
\* directory (name -> contents).

\* The logger's own state, which the archive strategy's steps leave alone.
loggerVars == <<defaultLogger, l, logChan, done, wg, batch, heap, pool, fs,
                pc, ent, proc, exitCode, wstat, h, dir>>

\* Names of files something else may have put into the archive directory.
ArchiveLeft == {<<"5", "log">>, <<"notes", "log">>}

\* The integers n of the files <n>.log among a set of names.
ArchivedIntegers(names) ==
    {Atoi(name[1]).val : name \in {m \in names : /\ Len(m) = 2
                                                  /\ m[2] = "log"
                                                  /\ Atoi(m[1]).ok}}

\* Mutation of ArchiveNextIndex: one more than the number of archive files.
ArchiveNextIndexCount(files, readable) ==
    IF ~readable THEN 1 ELSE 1 + Cardinality(DOMAIN files)

\* The next archive integer: 1 + the largest archived integer, 1 if there
\* is none or the directory cannot be read.
ArchiveNextIndex(files, readable) ==
    LET ints == ArchivedIntegers(DOMAIN files) IN
    IF ~readable \/ ints = {} THEN 1
    ELSE 1 + CHOOSE n \in ints : \A k \in ints : k <= n

\* The writer appends a line to the current file.
ArchiveWrite ==
    /\ arch.written < MaxRecords
    /\ arch' = [arch EXCEPT !.cur = Append(@, arch.written + 1),
                            !.written = @ + 1]
    /\ UNCHANGED loggerVars

\* Rotation: close the current file, rename it to archive/<n>.log, open a
\* fresh file at the original path.
ArchiveRotate ==
    /\ arch.rotations < MaxRotations
    /\ Len(arch.cur) > 0
    /\ LET n == ArchiveNextIndex(arch.files, arch.readable)
           name == <<Itoa(n), "log">>
       IN arch' = [arch EXCEPT
                      !.files = [m \in DOMAIN @ \cup {name} |->
                                    IF m = name THEN arch.cur ELSE @[m]],
                      !.cur = <<>>,
                      !.rotations = @ + 1]
    /\ UNCHANGED loggerVars

\* Something else puts a file into the archive directory.
ArchiveLeave(name) ==
    /\ name \notin DOMAIN arch.files
    /\ arch' = [arch EXCEPT !.files = [m \in DOMAIN @ \cup {name} |->
                                          IF m = name THEN <<>> ELSE @[m]]]
    /\ UNCHANGED loggerVars

\* The archive directory becomes unreadable, or readable again.
ArchiveChmod ==
    /\ arch' = [arch EXCEPT !.readable = ~@]
    /\ UNCHANGED loggerVars

NextArchive ==
    \/ ArchiveWrite
    \/ ArchiveRotate
    \/ \E name \in ArchiveLeft : ArchiveLeave(name)
    \/ ArchiveChmod

SpecArchive == Init /\ [][NextArchive]_vars

\* ------------------------------------------------------------ observations
RECURSIVE Concat(_, _, _)
\* The contents of files from..to in ascending index order.
Concat(files, from, to) ==
    IF from > to THEN <<>>
    ELSE (IF from \in DOMAIN files THEN files[from] ELSE <<>>)
         \o Concat(files, from + 1, to)

MaxIndex(files) ==
    IF DOMAIN files = {} THEN 0
    ELSE CHOOSE i \in DOMAIN files : \A j \in DOMAIN files : j <= i

\* The file output: the log files read one after the other.
Output == Concat(fs, 1, MaxIndex(fs))
OutIds == [i \in 1..Len(Output) |-> IdOf(Output[i])]

\* Position of an id in a sequence of ids (0 when absent).
PosIn(seq, id) ==
    IF \E i \in 1..Len(seq) : seq[i] = id
    THEN CHOOSE i \in 1..Len(seq) : seq[i] = id
    ELSE 0

\* Number of occurrences of an id in a sequence of ids.
Count(seq, id) == Cardinality({i \in 1..Len(seq) : seq[i] = id})

\* The ids of the entries caller goroutines hold between Get and the send.
Held == {IdOf(heap[ent[t]]) : t \in {u \in Threads : ent[u] # 0}}

\* The created entries that were neither accepted nor are still held: the
\* ones a full queue dropped (or, after a panic, the one whose send panicked).
Dropped == {i \in 1..h.created : i \notin Range(h.accepted) /\ i \notin Held}

\* ------------------------------------------------------------------ claims

\* C1: shutdown drains fully.  Once Close has returned, every record that
\* was accepted into the queue is in the file output exactly once, the queue
\* and the consumer's batch are empty and the consumer loop has terminated.
C1_ShutdownDrains ==
    h.closeReturned > 0 =>
        /\ \A i \in 1..Len(h.accepted) : Count(OutIds, h.accepted[i]) = 1
        /\ logChan.buf = <<>>
        /\ batch = <<>>
        /\ wg = 0

\* C1 witness: Close has returned after as many records as the queue holds
\* were accepted, with none dropped.
C1_Witness ==
    /\ h.closeReturned > 0
    /\ proc = "running"
    /\ l.bufferSize = 2
    /\ Len(h.accepted) = 2
    /\ Dropped = {}

\* C2: order preservation.  Any two records in the file output (the files
\* read in ascending index order) appear there in the order in which they
\* were accepted into the queue.
C2_OrderPreserved ==
    \A i, j \in 1..Len(OutIds) :
        i < j => /\ PosIn(h.accepted, OutIds[i]) > 0
                 /\ PosIn(h.accepted, OutIds[i]) < PosIn(h.accepted, OutIds[j])

\* C2 witness: two records accepted in the reverse of their creation order
\* are written across a rotation, in two files.
C2_Witness ==
    /\ h.accepted = <<2, 1>>
    /\ OutIds = <<2, 1>>
    /\ Cardinality({i \in DOMAIN fs : fs[i] # <<>>}) = 2

\* C3 (original claim): with maxLines = L and no size-based rotation, no
\* log file holds more than L records, and a file that has been rotated away
\* from holds exactly L records (the L-th record was the last written to it).
C3_LineRotationClaim ==
    (defaultLogger = "set" /\ l.maxLines < DefaultMaxLines
        /\ \A idx \in DOMAIN fs : SumSizes(fs[idx]) < l.maxSize) =>
        \A idx \in DOMAIN fs :
            /\ Len(fs[idx]) <= l.maxLines
            /\ idx < l.currentIndex => Len(fs[idx]) = l.maxLines

\* A consumer step that performs at most one flush: an arrival or a tick, or
\* a shutdown whose drain does not fill the batch twice.
SingleFlushStep ==
    /\ defaultLogger = "set"
    /\ fs' # fs
    /\ wg' = wg \/ Len(batch) + Len(logChan.buf) <= BatchLimit

\* C4: size-based rotation.  With maxFileSize = S > 0, a flush during which
\* line-based rotation does not trigger appends its whole batch to the
\* current file and to no other; it rotates (once, to the next index) exactly
\* when the cumulative size of the current file has reached S with this
\* flush, and right after that rotation the new current file is empty and
\* currSize = 0; otherwise currSize is the current file's size.
C4_Step ==
    LET f == l.file.idx
        n == Len(Output') - Len(Output)
    IN (SingleFlushStep /\ l.maxSize > 0 /\ l.lineCount + n < l.maxLines) =>
        /\ \A i \in DOMAIN fs \ {f} : fs'[i] = fs[i]
        /\ Len(fs'[f]) = Len(fs[f]) + n
        /\ SubSeq(fs'[f], 1, Len(fs[f])) = fs[f]
        /\ IF SumSizes(fs'[f]) >= l.maxSize
           THEN /\ l'.currentIndex = l.currentIndex + 1
                /\ l'.file = [idx |-> l.currentIndex + 1, open |-> TRUE]
                /\ DOMAIN fs' = DOMAIN fs \cup {l.currentIndex + 1}
                /\ fs'[l'.currentIndex] = <<>>
                /\ l'.currSize = 0
           ELSE /\ l'.currentIndex = l.currentIndex
                /\ l'.file = l.file
                /\ DOMAIN fs' = DOMAIN fs
                /\ l'.currSize = SumSizes(fs'[f])

C4_SizeRotation == [][C4_Step]_vars

\* C4 witness: with S = 50 the first file took two 44-byte records, the
\* second of which crossed S, and the file opened by the rotation is empty.
C4_Witness ==
    /\ defaultLogger = "set"
    /\ l.maxSize = 50
    /\ l.currentIndex = 2
    /\ Len(fs[1]) = 2
    /\ fs[2] = <<>>
    /\ l.currSize = 0

\* The level a rendered line was written with.
LevelNum(name) == CHOOSE k \in 0..4 : levelNames[k + 1] = name

\* C5: level filtering.  A call below the minimum level leaves the queue,
\* the pool, the entries and the files unchanged, and no record below the
\* minimum level is ever in the queue or in a log file.
C5_Step ==
    /\ h'.filtered # h.filtered =>
            UNCHANGED <<logChan, pool, heap, fs, batch, pc, ent>>
    /\ \A i \in 1..Len(logChan'.buf) :
            heap'[logChan'.buf[i]].level >= l'.level
    /\ \A out \in {Output'} :
          \A i \in 1..Len(out) : LevelNum(out[i].level) >= l'.level

C5_LevelFiltering == [][C5_Step]_vars

\* C5 witness: with level WARN, one DEBUG and one ERROR call were made and
\* after shutdown the output holds exactly the ERROR record.
C5_Witness ==
    /\ l.level = WARN
    /\ h.calls = 2
    /\ h.filtered = 1
    /\ h.closeReturned = 1
    /\ Len(Output) = 1
    /\ Output[1].level = "ERROR"

\* No FATAL call has been made: a FATAL caller never returns to idle.
NoFatalCall ==
    \A t \in Threads :
        /\ pc[t] \notin {"signal", "fatalwait"}
        /\ pc[t] = "send" => heap[ent[t]].level # FATAL

\* C6 (original claim): however non-FATAL submissions interleave with one
\* Close call that has not yet returned, no submission panics on its send.
C6_NoSubmissionPanics ==
    (NoFatalCall /\ h.closes <= 1 /\ h.closeReturned = 0) =>
        h.panic # "send on closed channel"

\* A step in which a caller starts a non-FATAL front-end call.
NonFatalCallStep ==
    /\ h'.calls # h.calls
    /\ \A t \in Threads :
          (ent[t] = 0 /\ ent'[t] # 0) => heap'[ent'[t]].level # FATAL

\* C7 (original claim): a Debug/Info/Warn/Error call made before Initialize
\* or after Close has returned has no effect.
C7_Step ==
    (NonFatalCallStep /\ (defaultLogger = "nil" \/ h.closeReturned > 0)) =>
        UNCHANGED <<heap, pool, pc, ent, logChan, fs, proc>>

C7_NoOpOutsideLifetime == [][C7_Step]_vars

\* C8: drop-on-full.  The queue never holds more than bufferSize records; a
\* send that finds the queue full leaves the queue as it is, clears the new
\* entry and puts it back into the pool, and the caller goes on; a caller at
\* its send can always take the step.
C8_Step ==
    /\ Len(logChan'.buf) <= l'.bufferSize
    /\ \A t \in Threads :
          (pc[t] = "send" /\ proc = "running") => ENABLED Send(t)
    /\ \A t \in Threads :
          (pc[t] = "send" /\ pc'[t] # "send" /\ ~logChan.closed
              /\ Len(logChan.buf) >= l.bufferSize) =>
            /\ logChan' = logChan
            /\ heap'[ent[t]].msg = <<>>
            /\ pool' = [pool EXCEPT ![ent[t]] = @ + 1]
            /\ ent'[t] = 0
            /\ h'.accepted = h.accepted
            /\ proc' = "running"

C8_DropOnFull == [][C8_Step]_vars

\* C8 witness: a record was dropped while the queue stayed full.
C8_Witness ==
    /\ proc = "running"
    /\ Dropped # {}
    /\ Len(logChan.buf) = l.bufferSize
    /\ l.bufferSize > 0

\* A step in which a caller's send ends without the entry being accepted.
DropStep ==
    \E t \in Threads :
        pc[t] = "send" /\ pc'[t] # "send" /\ h'.accepted = h.accepted

\* C9: accounting.  Once the consumer has terminated, the file output holds
\* exactly the accepted records, each once; the output never holds anything
\* else; and a record is dropped only at an instant the queue holds
\* bufferSize records.
C9_Step ==
    /\ \A out \in {OutIds'}, acc \in {h'.accepted} :
          /\ \A i \in 1..Len(out) : Count(acc, out[i]) = 1
          /\ (defaultLogger' = "set" /\ wg' = 0) =>
                /\ Len(out) = Len(acc)
                /\ \A i \in 1..Len(acc) : Count(out, acc[i]) = 1
    /\ DropStep => Len(logChan.buf) = l.bufferSize

C9_Accounting == [][C9_Step]_vars

\* C9 witness: two records were submitted to a queue of one, the second
\* was dropped, and after shutdown the accepted one is the output.
C9_Witness ==
    /\ defaultLogger = "set"
    /\ wg = 0
    /\ l.bufferSize = 1
    /\ h.created = 2
    /\ Cardinality(Dropped) = 1
    /\ Len(OutIds) = 1
    /\ proc = "running"

\* C10: FATAL shutdown.  When a FATAL call has terminated the process, the
\* exit status is non-zero, the consumer has terminated, the caller was
\* still inside its call (blocked on the wait), and every record accepted
\* before the FATAL call closed the shutdown signal is in the file output.
C10_FatalShutdown ==
    proc = "exit" =>
        /\ exitCode # 0
        /\ wg = 0
        /\ \E t \in Threads : pc[t] = "fatalwait"
        /\ \A i \in 1..h.atSignal : Count(OutIds, h.accepted[i]) = 1

\* C10 witness: the process exited through FATAL with two records accepted
\* before the signal.
C10_Witness ==
    /\ proc = "exit"
    /\ h.atSignal >= 2

\* ------------------------------------------------- claims on I/O failures
\* A step of the consumer goroutine: no caller moves in it.
ConsumerStep == defaultLogger = "set" /\ wg = 1 /\ pc' = pc /\ h' = h

\* The number of records a consumer step flushed: those that left the queue
\* and the batch together.
Flushed ==
    (Len(batch) + Len(logChan.buf)) - (Len(batch') + Len(logChan'.buf))

\* A rotation attempt has failed at OpenFile: the index has moved on, the
\* handle has not.
RotationFailed == defaultLogger = "set" /\ l.currentIndex # l.file.idx

\* C11 (original claim): a failed rotation is survivable.  After a rotation
\* attempt that failed at opening the new file, a flush in which no system
\* call is made to fail leaves the process running and appends its records:
\* to the file that was current before the failed attempt when no rotation
\* is due in the flush, and when the line count makes one due the rotation
\* completes and the writer has switched to a new open file.
C11_Step ==
    (ConsumerStep /\ RotationFailed /\ Flushed > 0
        /\ wstat'.faults = wstat.faults) =>
        /\ proc' = "running"
        /\ Len(Output') = Len(Output) + Flushed
        /\ IF l.lineCount + Flushed >= l.maxLines
           THEN /\ l'.file.open
                /\ l'.file.idx = l'.currentIndex
                /\ l'.currentIndex > l.currentIndex
                /\ l'.currentIndex \in DOMAIN fs'
           ELSE Len(fs'[l.file.idx]) = Len(fs[l.file.idx]) + Flushed

C11_RotationFailureSurvivable == [][C11_Step]_vars

\* The entries a consumer step flushed.
FlushedSlots ==
    (Range(batch) \cup Range(logChan.buf))
        \ (Range(batch') \cup Range(logChan'.buf))

\* The ids of the records waiting in the queue and in the batch.
Waiting(hp, ch, bt) ==
    {IdOf(hp[s]) : s \in Range(ch.buf) \cup Range(bt)}

\* C12: a write failure is non-fatal and is not retried.  A consumer step in
\* which the write of a batch fails leaves the process running and the
\* consumer loop alive (unless the step was the shutdown branch itself), and
\* every entry of the batch is cleared and back in the pool; a record whose
\* write failed is in no file, in the queue or in the batch ever after; and
\* when the write fails on the open handle nothing is added to any file,
\* currSize is as the line counting of the flush left it (unchanged, or 0
\* after a line-triggered rotation) and the file index advances by the
\* line-triggered rotations only: the flush triggers no size-based rotation.
C12_Step ==
    /\ wstat'.lost # {} =>
          \A out \in {OutIds'}, wait \in {Waiting(heap', logChan', batch')} :
              \A id \in wstat'.lost : Count(out, id) = 0 /\ id \notin wait
    /\ (ConsumerStep /\ wstat'.lost # wstat.lost) =>
          /\ proc' = "running"
          /\ wg' = 1 \/ (done /\ logChan'.closed)
          /\ \A s \in FlushedSlots :
                heap'[s].msg = <<>> /\ pool'[s] = pool[s] + 1
    /\ (ConsumerStep /\ wstat'.faults > wstat.faults /\ l'.file.open) =>
          /\ Output' = Output
          /\ l'.currentIndex =
                l.currentIndex + ((l.lineCount + Flushed) \div l.maxLines)
          /\ l'.currSize =
                IF l'.currentIndex = l.currentIndex THEN l.currSize ELSE 0

C12_WriteFailure == [][C12_Step]_vars

\* C12 witness: the write of record 1 failed on the open handle and record
\* 2, accepted after it, was written by a later flush.
C12_Witness ==
    /\ proc = "running"
    /\ wstat.lost = {1}
    /\ wstat.faults = 1
    /\ l.file.open
    /\ OutIds = <<2>>
    /\ h.accepted = <<1, 2>>

\* C13 (original claim): the rotation counters track the open file.  While
\* the writer holds an open file, currSize is the number of bytes and
\* lineCount the number of lines written to that file since it was opened
\* (so both are zero right after a rotation).
C13_CountersTrackFile ==
    (defaultLogger = "set" /\ l.file.open) =>
        /\ l.currSize = SumSizes(fs[l.file.idx])
        /\ l.lineCount = Len(fs[l.file.idx])

\* ------------------------------------------------ claims on the thresholds
\* C14 (original claim): MaxLines 0 disables line-based rotation.  With the
\* logger initialized with MaxLines 0, a flush that leaves the file it found
\* current below maxSize (so that no size-based rotation is due) does not
\* rotate, however many records have been written.
C14_Step ==
    (defaultLogger = "set" /\ h.config.MaxLines = 0 /\ fs' # fs
        /\ SumSizes(fs'[l.file.idx]) < l.maxSize) =>
        l'.currentIndex = l.currentIndex

C14_NoLineRotation == [][C14_Step]_vars

\* The default README.md documents for MaxFileSize: 100MB.
DocumentedMaxFileSize == 104857600

\* C15 (original claim): MaxFileSize has a default.  With the logger
\* initialized with MaxFileSize 0, a flush in which line-based rotation does
\* not trigger and which leaves the current file below the documented
\* default of 100MB triggers no rotation.
C15_Step ==
    LET f == l.file.idx
        n == Len(Output') - Len(Output)
    IN (SingleFlushStep /\ h.config.MaxFileSize = 0
            /\ l.lineCount + n < l.maxLines
            /\ SumSizes(fs'[f]) < DocumentedMaxFileSize) =>
        /\ l'.currentIndex = l.currentIndex
        /\ l'.file = l.file

C15_DefaultMaxFileSize == [][C15_Step]_vars

\* ------------------------------------------------ claims on the file names
\* The numbers N of the files <base>.N.log in a set of names.
IndicesOf(names, base) ==
    {n \in DOMAIN Numerals : base \o <<Numerals[n], "log">> \in names}

\* C16 (original claim): the starting index.  Initialize opens <base>.<i>.log
\* where i is one greater than the largest N with <base>.N.log in the log
\* directory (1 when there is none), so the file it opens is not one of the
\* files that were there; for every base name, with or without a dot.
C16_StartingIndex ==
    (defaultLogger = "set" /\ h.created = 0) =>
        LET base == TrimExt(h.config.LogPath)
            found == IndicesOf(dir, base)
            i == IF found = {} THEN 1
                 ELSE 1 + CHOOSE n \in found : \A k \in found : k <= n
        IN /\ l.currentIndex = i
           /\ l.file = [idx |-> i, open |-> TRUE]
           /\ LogName(base, l.currentIndex) \notin dir

\* ------------------------------------------------------ claims on liveness
\* Every record accepted so far is in the file output.
AllAcceptedWritten ==
    \A out \in {OutIds} :
        \A i \in 1..Len(h.accepted) : Count(out, h.accepted[i]) = 1

\* C17: bounded staleness without shutdown.  With the consumer scheduled and
\* its ticker firing, every record accepted into the queue is eventually in
\* the file output, whether or not Close is ever called and however few
\* records arrive; only the death of the process by a panic ends the wait.
\* (Again and again all the records accepted so far are written: a record
\* accepted at some instant is among those written at the next such one.)
C17_EventuallyWritten == []<>(AllAcceptedWritten \/ proc = "panic")

\* C17 witness: Close and Fatal were never called, all calls are made, one
\* record (fewer than BatchLimit) was accepted and it is in the output while
\* the consumer is still running.
C17_Witness ==
    /\ h.closes = 0
    /\ NoFatalCall
    /\ ~done
    /\ wg = 1
    /\ h.calls = MaxCalls
    /\ Len(h.accepted) = 1
    /\ Len(h.accepted) < BatchLimit
    /\ OutIds = h.accepted

\* --------------------------------------------- claims on the archive strategy
\* C18: archive-move rotation.  A rotation moves the contents of the current
\* file to archive/<n>.log, where n is 1 + the largest integer among the
\* files <k>.log of the archive directory, and 1 if there is none or the
\* directory is unreadable; it leaves the other archive files alone, and
\* afterwards the current file is empty, at the path it always had.
C18_Step ==
    /\ arch'.path = arch.path
    /\ arch'.rotations = arch.rotations + 1 =>
          LET ints == {k \in DOMAIN Numerals :
                          <<Numerals[k], "log">> \in DOMAIN arch.files}
              n == IF ~arch.readable \/ ints = {} THEN 1
                   ELSE 1 + CHOOSE k \in ints : \A j \in ints : j <= k
              name == <<Numerals[n], "log">>
          IN /\ DOMAIN arch'.files = DOMAIN arch.files \cup {name}
             /\ arch'.files[name] = arch.cur
             /\ \A m \in DOMAIN arch.files \ {name} :
                   arch'.files[m] = arch.files[m]
             /\ arch'.cur = <<>>

C18_ArchiveRotation == [][C18_Step]_vars

\* C18 witness: with 5.log found in the archive directory, two rotations
\* have moved the current file to 6.log and to 7.log, and the current file is
\* empty at its path.
C18_Witness ==
    /\ arch.rotations = 2
    /\ DOMAIN arch.files = {<<"5", "log">>, <<"6", "log">>, <<"7", "log">>}
    /\ arch.files[<<"6", "log">>] # <<>>
    /\ arch.files[<<"7", "log">>] # <<>>
    /\ arch.cur = <<>>
    /\ arch.path = <<"app", "log">>

\* ------------------------------------------------ claims on the rotations
\* C19: rotations per flush.  A flush of n records that starts with line
\* counter c performs (c + n) \div maxLines line-triggered rotations, each
\* opening the file of the next index, before any byte of the batch is
\* written: the files it passes stay as they were (the new ones empty), and
\* the whole batch lands in the file of the last of these rotations, which
\* is followed by one more rotation exactly when that file has reached
\* maxSize.
C19_Step ==
    (defaultLogger = "set" /\ h'.created > h.created) =>
        LET n == h'.created - h.created
            k == (l.lineCount + n) \div l.maxLines
            f == l.currentIndex + k
        IN /\ \A i \in (l.currentIndex + 1)..f : i \in DOMAIN fs'
           /\ \A i \in l.currentIndex..(f - 1) :
                 fs'[i] = IF i \in DOMAIN fs THEN fs[i] ELSE <<>>
           /\ Len(fs'[f]) = (IF k = 0 THEN Len(fs[f]) ELSE 0) + n
           /\ l'.currentIndex =
                 IF SumSizes(fs'[f]) >= l.maxSize THEN f + 1 ELSE f
           /\ l'.lineCount =
                 IF SumSizes(fs'[f]) >= l.maxSize THEN 0
                 ELSE (l.lineCount + n) % l.maxLines

C19_RotationsPerFlush == [][C19_Step]_vars

\* C19 witness: with maxLines 1, one flush of two records has rotated twice
\* (files 2 and 3 opened) and written both lines to file 3.
C19_Witness ==
    /\ l.maxLines = 1
    /\ l.maxSize = 1000
    /\ h.created = 2
    /\ l.currentIndex = 3
    /\ fs[1] = <<>>
    /\ fs[2] = <<>>
    /\ Len(fs[3]) = 2

\* C20 (original claim): the current file is the highest index.  Whenever a
\* logger is installed, the handle the writer appends to is the file of
\* currentIndex, that file exists and no log file of the base has a higher
\* index; a step never lowers currentIndex, every index it moves past was
\* opened as a file, and no file is removed or, once rotated away from,
\* changed.  Stated for every step, those that follow a failed rotation
\* attempt included.
C20_Step ==
    /\ defaultLogger' = "set" =>
          /\ l'.file.idx = l'.currentIndex
          /\ l'.currentIndex \in DOMAIN fs'
          /\ l'.currentIndex = MaxIndex(fs')
    /\ (defaultLogger = "set" /\ defaultLogger' = "set") =>
          /\ l'.currentIndex >= l.currentIndex
          /\ \A i \in (l.currentIndex + 1)..l'.currentIndex : i \in DOMAIN fs'
          /\ DOMAIN fs \subseteq DOMAIN fs'
          /\ \A i \in DOMAIN fs : i < l.currentIndex => fs'[i] = fs[i]

C20_CurrentIsHighest == [][C20_Step]_vars

\* --------------------------------------------- claims on shutdown and FATAL
\* No caller is inside a non-FATAL submission: every entry a caller holds at
\* its send is a FATAL one.
OnlyFatalInFlight ==
    \A t \in Threads : pc[t] = "send" => heap[ent[t]].level = FATAL

\* C21 (original claim): the shutdown signal is raised at most once by
\* FATAL.  While FATAL calls run concurrently with each other or with one
\* Close call that has not returned, no thread panics, neither on a second
\* close of the shutdown signal nor on a send to the closed queue.
C21_FatalSignalsOnce ==
    (OnlyFatalInFlight /\ h.closes <= 1 /\ h.closeReturned = 0) =>
        /\ h.panic = ""
        /\ proc # "panic"

\* C22: shutdown is not idempotent.  A Close call made after an earlier Close
\* has returned is not a no-op: it closes the already closed shutdown signal,
\* which panics ("close of closed channel"); the process ends there with the
\* panic's exit status, the call never returns, and nothing else changes.
C22_Step ==
    (h'.closes = h.closes + 1 /\ h.closeReturned > 0) =>
        /\ proc' = "panic"
        /\ h'.panic = "close of closed channel"
        /\ exitCode' = 2
        /\ h'.closeReturned = h.closeReturned
        /\ UNCHANGED <<defaultLogger, l, logChan, done, wg, batch, heap, pool,
                       fs, pc, ent>>

C22_CloseNotIdempotent == [][C22_Step]_vars

\* C22 witness: the first Close has returned, the second has panicked.
C22_Witness ==
    /\ h.closes = 2
    /\ h.closeReturned = 1
    /\ proc = "panic"
    /\ h.panic = "close of closed channel"
    /\ ~l.file.open

\* ------------------------------------------------ claims on the pipeline
\* A step in which the consumer receives one entry from the queue.
RecvStep ==
    /\ ConsumerStep
    /\ wg' = 1
    /\ Len(logChan.buf) > 0
    /\ logChan' = [logChan EXCEPT !.buf = Tail(@)]

\* A step of the consumer's tick that changes anything.
TickStep == ConsumerStep /\ wg' = 1 /\ logChan' = logChan

\* C23: batch bound.  Between steps the batch holds fewer records than the
\* high-water mark: the arrival that brings it to the mark flushes it in the
\* same step, and all its records are then in the file output.  An arrival
\* below the mark only appends to the batch.  A tick flushes a non-empty
\* batch whole, and the batch is empty after either flush.  On an empty
\* batch the tick's flush leaves the writer, the files and the pool as they
\* are.
C23_Step ==
    /\ Len(batch') < BatchLimit
    /\ RecvStep =>
          IF Len(batch) + 1 >= BatchLimit
          THEN /\ batch' = <<>>
               /\ Len(Output') = Len(Output) + Len(batch) + 1
          ELSE /\ batch' = Append(batch, Head(logChan.buf))
               /\ UNCHANGED <<l, fs, heap, pool>>
    /\ TickStep =>
          /\ batch # <<>>
          /\ batch' = <<>>
          /\ Len(Output') = Len(Output) + Len(batch)
    /\ batch' = <<>> =>
          \A flt \in FaultChoices :
              TickFlush(ConsumerState', flt) = ConsumerState'

C23_BatchBound == [][C23_Step]_vars

\* C23 witness: with line rotation every two lines, the consumer is running
\* and two records were flushed as one batch (both are in the file opened by
\* the rotation their flush made, which only a batch at the mark does).
C23_Witness ==
    /\ wg = 1
    /\ batch = <<>>
    /\ l.maxLines = BatchLimit
    /\ 2 \in DOMAIN fs
    /\ fs[1] = <<>>
    /\ Len(fs[2]) = BatchLimit

\* A step of a caller goroutine: a front-end call, its send, the FATAL
\* signal and exit, or a step of Close.
CallerStep ==
    \/ pc' # pc
    \/ h'.calls # h.calls
    \/ h'.closes # h.closes
    \/ h'.panic # h.panic
    \/ proc' = "exit" /\ proc = "running"

\* C24: single-writer ownership of the file state.  No step of a caller
\* changes the files, currSize, lineCount or currentIndex; while the
\* consumer loop runs no step of a caller changes any writer field; and the
\* only caller step that changes the file handle is the return of Close,
\* which closes it after the consumer loop has terminated.
C24_Step ==
    CallerStep =>
        /\ fs' = fs
        /\ l'.currSize = l.currSize
        /\ l'.lineCount = l.lineCount
        /\ l'.currentIndex = l.currentIndex
        /\ wg = 1 => l' = l
        /\ l'.file # l.file =>
              /\ wg = 0
              /\ l'.file = [l.file EXCEPT !.open = FALSE]
              /\ \E t \in Threads : pc[t] = "closewait" /\ pc'[t] = "idle"

C24_SingleWriter == [][C24_Step]_vars

\* C24 witness: Close has returned and closed the handle of a file the
\* consumer wrote to and has not rotated away from.
C24_Witness ==
    /\ h.closeReturned = 1
    /\ wg = 0
    /\ ~l.file.open
    /\ l.file.idx = l.currentIndex
    /\ l.currSize > 0
    /\ Len(fs[l.currentIndex]) > 0

\* The number of places entry s is in: held by a caller between Get and its
\* send, in the queue, in the consumer's batch, in the pool.
Places(s) ==
    Cardinality({t \in Threads : ent[t] = s}) + Count(logChan.buf, s)
        + Count(batch, s) + pool[s]

\* A caller's send finds the queue full and drops entry s.
DropOf(s) ==
    \E t \in Threads :
        /\ ent[t] = s
        /\ pc[t] = "send"
        /\ pc'[t] # "send"
        /\ h'.accepted = h.accepted

\* C25: record ownership.  Every entry the pool has handed out is in exactly
\* one place: with the caller that fills it, in the queue, in the batch, or
\* back in the pool (so no two callers hold the same entry and a queued or
\* batched entry is not in the pool).  An entry in the pool has its message
\* cleared.  A step puts an entry into the pool once, and only an entry
\* whose record is then in the file output or was dropped by a full queue in
\* that step.
C25_Step ==
    \A s \in Slots :
        /\ Places(s)' = IF s <= h'.allocated THEN 1 ELSE 0
        /\ pool'[s] > 0 => heap'[s].msg = <<>>
        /\ pool'[s] > pool[s] =>
              /\ pool'[s] = pool[s] + 1
              /\ IdOf(heap[s]) # 0
              /\ \/ Count(OutIds', IdOf(heap[s])) = 1
                 \/ DropOf(s)

C25_RecordOwnership == [][C25_Step]_vars

\* C25 witness: one entry served two calls: it was checked out twice and is
\* back in the pool with both records written.
C25_Witness ==
    /\ h.created = 2
    /\ h.allocated = 1
    /\ pool[1] = 1
    /\ heap[1].msg = <<>>
    /\ Len(Output) = 2

\* The FATAL lines of the file output.
FatalLines == {i \in 1..Len(Output) : Output[i].level = levelNames[FATAL + 1]}

\* The callers whose FATAL submission is over: they passed the level filter
\* and the send, and are at the shutdown signal or waiting for the consumer.
FatalSubmitted == {t \in Threads : pc[t] \in {"signal", "fatalwait"}}

\* C26 (original claim): the FATAL record itself is logged.  When the process
\* has exited through a FATAL call, the file output holds a FATAL line for
\* every caller whose FATAL submission was made, the one that ended the
\* process included, whether or not the queue was full at its send.
C26_FatalRecordLogged ==
    proc = "exit" => Cardinality(FatalLines) >= Cardinality(FatalSubmitted)

====
